---- MODULE Spec2Model ----
(***************************************************************************)
(* Property Valuation Dashboard (src/app.js).                              *)
(*                                                                         *)
(* The model follows one page session: init() loads data/valuations.json,  *)
(* normalises it into the `rows` array, builds the chart over it and wires *)
(* the Q&A buttons; afterwards the only events are chart clicks and Q&A    *)
(* button clicks.  `rows` is one JavaScript array shared by reference by   *)
(* the chart's onClick closure, the tooltip and the Q&A handlers, so it is *)
(* one variable here and every in-place operation on it is visible to all. *)
(***************************************************************************)
EXTENDS Integers, Sequences

VARIABLES
    phase,          \* "loading" | "ready" | "failed"   (progress of init())
    source,         \* what fetch("./data/valuations.json") delivers
    rows,           \* the array returned by loadData(), shared by all handlers
    labels,         \* chart.data.labels, computed once in makeChart
    selectedIndex,  \* makeChart's closure variable selectedIndex
    selected,       \* window.__selectedInvestor
    detail,         \* what renderDetail last put in #detail
    answer,         \* #answer textContent
    overlapLabel,   \* #overlap textContent
    band,           \* result of the last direct call of overlapBand
    winner          \* result of the last direct call of mostLikelyWinner

vars == <<phase, source, rows, labels, selectedIndex, selected, detail, answer,
          overlapLabel, band, winner>>

----------------------------------------------------------------------------
(* Bounds of the model *)

\* longest record set loaded in a page session
MaxRows == 3
\* longest record set handed to overlapBand / mostLikelyWinner directly
MaxArgs == 2
\* monetary amounts range over 1..MaxAmount
MaxAmount == 4

----------------------------------------------------------------------------
(* JavaScript values *)
(* A value is a tuple, so that values of different kinds can be compared:  *)
(* <<>> is null or undefined (a field the source leaves out), <<v>> is the *)
(* number or string v, and a pair <<0, tag>> is a value that is neither:   *)
(* NaN, or a source string that is not the text of a number.               *)

Null == <<>>
NaN == <<0, "NaN">>
NotNumeric == <<0, "n/a">>
Num(n) == <<n>>
\* a reference to a row (against null: no row)
Ref(r) == <<r>>
Deref(x) == x[1]
Str(s) == <<s>>
EmptyString == <<"">>

IsNumber(x) == Len(x) = 1
Val(x) == x[1]

\* x == null (true of null and of undefined)
IsNullish(x) == Len(x) = 0

\* Number(x) on what loadData passes it: a number stays, a missing field
\* (undefined) and a string that is not the text of a number become NaN
Number(x) == IF Len(x) = 1 THEN x ELSE NaN

\* x ?? y
Coalesce(x, y) == IF IsNullish(x) THEN y ELSE x

\* x || y, x a string or undefined (the empty string is falsy too)
OrElse(x, y) == IF IsNullish(x) \/ x = EmptyString THEN y ELSE x

\* a < b, a <= b, a >= b on numbers: false as soon as one side is NaN
Lt(a, b) == IsNumber(a) /\ IsNumber(b) /\ Val(a) < Val(b)
Le(a, b) == IsNumber(a) /\ IsNumber(b) /\ Val(a) <= Val(b)
Ge(a, b) == IsNumber(a) /\ IsNumber(b) /\ Val(a) >= Val(b)

RECURSIVE MaxOf(_)
\* Math.max(...xs) for a non-empty xs: NaN as soon as one argument is NaN
MaxOf(xs) ==
    IF \E i \in 1..Len(xs) : ~IsNumber(xs[i]) THEN NaN
    ELSE IF Len(xs) = 1 THEN xs[1]
    ELSE LET m == MaxOf(Tail(xs)) IN IF Val(xs[1]) >= Val(m) THEN xs[1] ELSE m

RECURSIVE MinOf(_)
\* Math.min(...xs) for a non-empty xs
MinOf(xs) ==
    IF \E i \in 1..Len(xs) : ~IsNumber(xs[i]) THEN NaN
    ELSE IF Len(xs) = 1 THEN xs[1]
    ELSE LET m == MinOf(Tail(xs)) IN IF Val(xs[1]) <= Val(m) THEN xs[1] ELSE m

\* money(x): `£${Number(x).toFixed(2)}m`
money(x) == [symbol |-> "£", amount |-> Number(x), decimals |-> 2, suffix |-> "m"]

----------------------------------------------------------------------------
(* overlapBand *)

\* rows.map(r => r.low), rows.map(r => r.high)
LowsOf(rs) == [i \in 1..Len(rs) |-> rs[i].low]
HighsOf(rs) == [i \in 1..Len(rs) |-> rs[i].high]

\* overlapBand with lo <= hi for lo < hi
overlapBandLoose(rs) ==
    LET lo == MaxOf(LowsOf(rs))
        hi == MinOf(HighsOf(rs))
    IN  IF Le(lo, hi) THEN <<lo, hi>> ELSE Null

overlapBand(rs) ==
    LET lo == MaxOf(LowsOf(rs))
        hi == MinOf(HighsOf(rs))
    IN  IF Lt(lo, hi) THEN <<lo, hi>> ELSE Null

----------------------------------------------------------------------------
(* mostLikelyWinner *)

\* the sentinel of (a.discount_rate ?? 99)
AbsentRate == 99

\* the sort key of the comparator on line 20
RateKey(r) == Val(Coalesce(r.discount_rate, Num(AbsentRate)))

\* (a, b) => key(a) - key(b)
CompareRate(a, b) == RateKey(a) - RateKey(b)

RECURSIVE InsertByRate(_, _)
\* Array.prototype.sort is stable: an element goes after every element that
\* does not compare greater than it
InsertByRate(x, s) ==
    IF s = <<>> THEN <<x>>
    ELSE IF CompareRate(s[1], x) > 0 THEN <<x>> \o s
    ELSE <<s[1]>> \o InsertByRate(x, Tail(s))

RECURSIVE SortByRate(_)
SortByRate(s) ==
    IF s = <<>> THEN <<>>
    ELSE InsertByRate(s[Len(s)], SortByRate(SubSeq(s, 1, Len(s) - 1)))

\* rows.filter(r => r.base >= ov[0] && r.base <= ov[1])
InBand(rs, ov) ==
    LET Keep(r) == Ge(r.base, ov[1]) /\ Le(r.base, ov[2])
    IN  SelectSeq(rs, Keep)

\* mostLikelyWinner ranking all rows, in the band or not
mostLikelyWinnerUnfiltered(rs) ==
    LET ov == overlapBand(rs)
    IN  IF ov = Null THEN [result |-> Null, rows |-> rs]
        ELSE LET pool == SortByRate(rs)
             IN  [result |-> IF Len(pool) > 0 THEN Ref(pool[1]) ELSE Null, rows |-> pool]

\* mostLikelyWinner without the fallback to all rows
mostLikelyWinnerNoFallback(rs) ==
    LET ov == overlapBand(rs)
    IN  IF ov = Null THEN [result |-> Null, rows |-> rs]
        ELSE LET pool == SortByRate(InBand(rs, ov))
             IN  [result |-> IF Len(pool) > 0 THEN Ref(pool[1]) ELSE Null, rows |-> rs]

\* mostLikelyWinner(rows): the value returned and the array `rows` as the call
\* leaves it.  `pool` is the fresh array made by filter when that is
\* non-empty, and otherwise the very array `rows`, which sort() reorders in place.
mostLikelyWinner(rs) ==
    LET ov == overlapBand(rs)
    IN  IF ov = Null THEN [result |-> Null, rows |-> rs]
        ELSE LET inBand == InBand(rs, ov)
                 pool == SortByRate(IF Len(inBand) > 0 THEN inBand ELSE rs)
             IN  [result |-> IF Len(pool) > 0 THEN Ref(pool[1]) ELSE Null,
                  rows |-> IF Len(inBand) > 0 THEN rs ELSE pool]

----------------------------------------------------------------------------
(* buildAnswer *)

CompareBaseDesc(a, b) == Val(b.base) - Val(a.base)

RECURSIVE InsertByBase(_, _)
InsertByBase(x, s) ==
    IF s = <<>> THEN <<x>>
    ELSE IF CompareBaseDesc(s[1], x) > 0 THEN <<x>> \o s
    ELSE <<s[1]>> \o InsertByBase(x, Tail(s))

RECURSIVE SortByBase(_)
SortByBase(s) ==
    IF s = <<>> THEN <<>>
    ELSE InsertByBase(s[Len(s)], SortByBase(SubSeq(s, 1, Len(s) - 1)))

WhyHighest == "Lower cost of capital / greater willingness to pay for durability & scarcity."
WhyLowest == "Higher required returns / more aggressive risk pricing."
WhyWinner == "Patient capital / lower cost of capital in the overlap band."
NoOverlapText == "No full overlap band (ranges don't all intersect)."

\* a text: its fixed lead, the investor it names, the amounts it prints and
\* the explanation that ends it
Text(lead, investor, amounts, tail) ==
    [lead |-> lead, investor |-> investor, amounts |-> amounts, tail |-> tail]

EmptyText == Text("", Null, <<>>, Null)

\* buildAnswer(kind, rows, selected): the text returned and the array `rows`
\* as the call leaves it (mostLikelyWinner is called on line 31 whatever the
\* kind).  Every document of the model gives every object a numeric base, so
\* the comparator of line 28 is a consistent one.
buildAnswer(kind, rs, sel) ==
    LET ov == overlapBand(rs)
        sorted == SortByBase(rs)
        highest == sorted[1]
        lowest == sorted[Len(sorted)]
        won == mostLikelyWinner(rs)
        text ==
            CASE kind = "overlap" ->
                    IF ov # Null
                    THEN Text("Overlap band: ", Null, <<money(ov[1]), money(ov[2])>>, Null)
                    ELSE Text("Overlap band: ", Null, <<>>, Str(NoOverlapText))
              [] kind = "highest" ->
                    Text("Highest base value: ", highest.investor, <<money(highest.base)>>,
                         Coalesce(highest.why, Str(WhyHighest)))
              [] kind = "lowest" ->
                    Text("Lowest base value: ", lowest.investor, <<money(lowest.base)>>,
                         Coalesce(lowest.why, Str(WhyLowest)))
              [] kind = "winner" ->
                    IF won.result = Null
                    THEN Text("Winner: unclear (no overlap band).", Null, <<>>,
                              Str("Try narrowing the investor set or re-check ranges."))
                    ELSE Text("Most likely winner (heuristic): ", Deref(won.result).investor, <<>>,
                              Coalesce(Deref(won.result).profile, Str(WhyWinner)))
              [] OTHER -> EmptyText
    IN  [text |-> text, rows |-> won.rows]

----------------------------------------------------------------------------
(* loadData *)

\* one object of data/valuations.json -> one normalised row
Normalize(r) ==
    [investor |-> r.investor,
     low |-> Number(r.low),
     base |-> Number(r.base),
     high |-> Number(r.high),
     discount_rate |-> IF ~IsNullish(r.discount_rate) THEN Number(r.discount_rate) ELSE Null,
     profile |-> OrElse(r.profile, EmptyString),
     why |-> OrElse(r.why, EmptyString)]

\* rows.map(r => ({...}))
loadData(doc) == [i \in 1..Len(doc) |-> Normalize(doc[i])]

----------------------------------------------------------------------------
(* renderDetail, makeChart *)

\* the lines renderDetail puts in #detail for a selected row
renderDetail(r) ==
    [title |-> r.investor,
     base |-> money(r.base),
     range |-> <<money(r.low), money(r.high)>>,
     discount |-> r.discount_rate,
     lens |-> r.profile,
     driver |-> r.why]

\* labels = rows.map(r => r.investor)
ChartLabels(rs) == [i \in 1..Len(rs) |-> rs[i].investor]

\* the text setOverlapLabel puts in #overlap
OverlapLabelText(rs) ==
    LET ov == overlapBand(rs)
    IN  IF ov # Null
        THEN Text("Overlap band: ", Null, <<money(ov[1]), money(ov[2])>>, Null)
        ELSE Text("Overlap band: none", Null, <<>>, Null)

----------------------------------------------------------------------------
(* The documents data/valuations.json ranges over *)

InvestorNames == <<"A", "B", "C", "D", "E">>

\* an object of the document; its investor is named after its position by
\* Place, so that the names of a document are unique
Object(low, base, high, rate, profile, why) ==
    [investor |-> Str("?"), low |-> low, base |-> base, high |-> high,
     discount_rate |-> rate, profile |-> profile, why |-> why]

Amounts == 1..MaxAmount

\* the valuations of the data model: low <= base <= high
Valuations ==
    {v \in Amounts \X Amounts \X Amounts : v[1] <= v[2] /\ v[2] <= v[3]}

\* three valuations: the first two overlap with neither base in the
\* overlap, the first and the third do not overlap
SessionValuations == {<<1, 1, 3>>, <<2, 4, 4>>, <<3, 3, 4>>}

\* stated discount rates: a low one, and one above the sentinel for no rate
StatedRates == {Num(2), Num(100)}

\* objects handed to overlapBand and mostLikelyWinner directly: every
\* valuation with a stated rate, the three valuations above with none
ArgObjects ==
    {Object(Num(v[1]), Num(v[2]), Num(v[3]), d, Null, Null) : v \in Valuations, d \in StatedRates}
    \cup {Object(Num(v[1]), Num(v[2]), Num(v[3]), Null, Null, Null) : v \in SessionValuations}

\* objects of a page session: the three valuations above, two discount
\* rates; the objects with the lower rate carry authored texts
SessionRates == {Num(2), Num(4)}
AuthoredFor(d) == IF d = Num(2) THEN Str("authored") ELSE Null

WellFormedObjects ==
    {Object(Num(v[1]), Num(v[2]), Num(v[3]), d, AuthoredFor(d), AuthoredFor(d)) :
        v \in SessionValuations, d \in SessionRates}

\* objects the ingestion contract rejects: a low that is not the text of a
\* number, no high at all, no investor
MalformedObjects ==
    {Object(NotNumeric, Num(1), Num(3), Null, Null, Null),
     Object(Num(2), Num(4), Null, Num(2), Null, Null),
     [Object(Num(1), Num(1), Num(3), Num(4), Null, Null) EXCEPT !.investor = Null]}

Place(o, i) == IF IsNullish(o.investor) THEN o ELSE [o EXCEPT !.investor = Str(InvestorNames[i])]

\* the document that holds the objects f[1], ..., f[k] in this order
Document(f, k) == [i \in 1..k |-> Place(f[i], i)]

Response(ok, body) == [ok |-> ok, body |-> body]

Unreachable == Response(FALSE, <<>>)

SessionObjects == WellFormedObjects \cup MalformedObjects

----------------------------------------------------------------------------
(* The page session *)

NotCalled == <<0, 0, 0>>
PageDefault == Text("(as authored in the page)", Null, <<>>, Null)
NoDetail == [title |-> Null, base |-> money(NaN), range |-> <<>>,
             discount |-> Null, lens |-> Null, driver |-> Null]

Kinds == {"overlap", "highest", "lowest", "winner", "other"}

Init ==
    /\ phase = "loading"
    /\ \/ source = Unreachable
       \/ \E k \in 1..MaxRows : \E f \in [1..k -> SessionObjects] :
             source = Response(TRUE, Document(f, k))
    /\ rows = <<>>
    /\ labels = <<>>
    /\ selectedIndex = Null
    /\ selected = Null
    /\ detail = NoDetail
    /\ answer = PageDefault
    /\ overlapLabel = PageDefault
    /\ band = NotCalled
    /\ winner = NotCalled

\* init(): loadData throws (the response is not ok), nothing else runs
LoadFails ==
    /\ phase = "loading"
    /\ ~source.ok
    /\ phase' = "failed"
    /\ UNCHANGED <<source, rows, labels, selectedIndex, selected, detail, answer,
                   overlapLabel, band, winner>>

\* init(): loadData returns, then setOverlapLabel, makeChart, setupQA
LoadSucceeds ==
    /\ phase = "loading"
    /\ source.ok
    /\ rows' = loadData(source.body)
    /\ overlapLabel' = OverlapLabelText(rows')
    /\ labels' = ChartLabels(rows')
    /\ selectedIndex' = Null
    /\ selected' = Null
    /\ phase' = "ready"
    /\ UNCHANGED <<source, detail, answer, band, winner>>

\* the click handler of a .qa button whose data-q is kind
QAClick(kind) ==
    /\ phase = "ready"
    /\ LET out == buildAnswer(kind, rows, selected)
       IN  /\ answer' = out.text
           /\ rows' = out.rows
    /\ UNCHANGED <<phase, source, labels, selectedIndex, selected, detail,
                   overlapLabel, band, winner>>

\* onClick that clears the selection when nothing is under the pointer
ChartClickMissClears ==
    /\ phase = "ready"
    /\ selectedIndex' = Null
    /\ selected' = Null
    /\ UNCHANGED <<phase, source, rows, labels, detail, answer, overlapLabel, band, winner>>

\* onClick with no element under the pointer: points is empty
ChartClickMiss ==
    /\ phase = "ready"
    /\ UNCHANGED vars

\* onClick on the bar or the base dot of chart row idx (1-based here)
ChartClickRow(idx) ==
    /\ phase = "ready"
    /\ idx \in 1..Len(labels)
    /\ selectedIndex' = Num(idx)
    /\ selected' = Ref(rows[idx])
    /\ detail' = renderDetail(rows[idx])
    /\ UNCHANGED <<phase, source, rows, labels, answer, overlapLabel, band, winner>>

Next ==
    \/ LoadFails
    \/ LoadSucceeds
    \/ \E kind \in Kinds : QAClick(kind)
    \/ ChartClickMiss
    \/ \E idx \in 1..MaxRows : ChartClickRow(idx)

Spec == Init /\ [][Next]_vars

----------------------------------------------------------------------------
(* overlapBand and mostLikelyWinner called directly on a loaded record set *)

ArgInit ==
    /\ phase = "ready"
    /\ \E k \in 1..MaxArgs : \E f \in [1..k -> ArgObjects] :
          source = Response(TRUE, Document(f, k))
    /\ rows = loadData(source.body)
    /\ labels = ChartLabels(rows)
    /\ selectedIndex = Null
    /\ selected = Null
    /\ detail = NoDetail
    /\ answer = PageDefault
    /\ overlapLabel = OverlapLabelText(rows)
    /\ band = NotCalled
    /\ winner = NotCalled

\* overlapBand(rows), then mostLikelyWinner(rows), as lines 25 and 31 call them
Evaluate ==
    /\ band' = overlapBand(rows)
    /\ winner' = mostLikelyWinner(rows).result
    /\ rows' = mostLikelyWinner(rows).rows
    /\ UNCHANGED <<phase, source, labels, selectedIndex, selected, detail, answer,
                   overlapLabel>>

ArgNext == Evaluate

ArgSpec == ArgInit /\ [][ArgNext]_vars

----------------------------------------------------------------------------
(* Properties *)

\* the record set as loadData returned it: the original (load) order
GivenRows == loadData(source.body)

Evaluated == band # NotCalled

\* the greatest low and the least high of the records g
GreatestLow(g) ==
    LET lows == {Val(g[i].low) : i \in 1..Len(g)}
    IN  CHOOSE x \in lows : \A y \in lows : x >= y

LeastHigh(g) ==
    LET highs == {Val(g[i].high) : i \in 1..Len(g)}
    IN  CHOOSE x \in highs : \A y \in highs : x <= y

\* C1: overlapBand returns [lo, hi], lo the greatest low and hi the least
\* high of the records, exactly when lo < hi, and null otherwise.
C1_OverlapBand ==
    Evaluated =>
        LET lo == GreatestLow(GivenRows)
            hi == LeastHigh(GivenRows)
        IN  band = IF lo < hi THEN <<Num(lo), Num(hi)>> ELSE Null

\* several records whose greatest low equals their least high: no band
C1_Witness ==
    /\ Evaluated
    /\ Len(GivenRows) > 1
    /\ GreatestLow(GivenRows) = LeastHigh(GivenRows)
    /\ band = Null

\* positions (in the order of g) of the records whose base lies in [lo, hi]
InBandAt(g, lo, hi) ==
    {i \in 1..Len(g) : Val(g[i].base) >= lo /\ Val(g[i].base) <= hi}

\* positions of the candidate pool
PoolAt(g, lo, hi) ==
    IF InBandAt(g, lo, hi) # {} THEN InBandAt(g, lo, hi) ELSE 1..Len(g)

C3_WinnerIffBand ==
    Evaluated => (winner = Null <=> band = Null)

\* a band with no base inside it, and still a winner
C3_Witness ==
    /\ Evaluated
    /\ band # Null
    /\ InBandAt(GivenRows, GreatestLow(GivenRows), LeastHigh(GivenRows)) = {}
    /\ winner # Null

\* C6: if the candidate pool holds a record with a present discount rate,
\* the winner has a present discount rate.
C6_AbsentRateNeverWins ==
    (Evaluated /\ winner # Null) =>
        LET g == GivenRows
            pool == PoolAt(g, GreatestLow(g), LeastHigh(g))
        IN  (\E j \in pool : IsNumber(g[j].discount_rate))
                => IsNumber(Deref(winner).discount_rate)

\* C4: a Q&A click (buildAnswer) leaves the record set and the selection as
\* they were.
C4_ComposeIsPure ==
    [][(\E kind \in Kinds : QAClick(kind)) =>
          (rows' = rows /\ selected' = selected)]_vars

\* every object of the document has its required fields, as numbers
WellFormedSource ==
    /\ source.ok
    /\ \A i \in 1..Len(source.body) :
          /\ ~IsNullish(source.body[i].investor)
          /\ IsNumber(source.body[i].low)
          /\ IsNumber(source.body[i].base)
          /\ IsNumber(source.body[i].high)

\* the first position, in load order, of a record with the greatest base
FirstGreatestBaseAt ==
    CHOOSE i \in 1..Len(GivenRows) :
        /\ \A j \in 1..Len(GivenRows) : Val(GivenRows[j].base) <= Val(GivenRows[i].base)
        /\ \A j \in 1..(i - 1) : Val(GivenRows[j].base) < Val(GivenRows[i].base)

\* C5: a "highest" answer names the record with the greatest base, the first
\* of them in load order when several share it.
C5_HighestIsFirstGreatest ==
    (phase = "ready" /\ WellFormedSource /\ answer.lead = "Highest base value: ") =>
        answer.investor = GivenRows[FirstGreatestBaseAt].investor

\* the object of the document an answer names
NamedObject == CHOOSE o \in {source.body[i] : i \in 1..Len(source.body)} : o.investor = answer.investor

\* C7: the explanation of an answer is the authored text of the record it
\* names when the source has one, the fixed fallback sentence when it has
\* none, and never empty.
C7_Explanation ==
    (phase = "ready" /\ WellFormedSource) =>
        /\ answer.lead = "Highest base value: " =>
              answer.tail = Coalesce(NamedObject.why, Str(WhyHighest))
        /\ answer.lead = "Lowest base value: " =>
              answer.tail = Coalesce(NamedObject.why, Str(WhyLowest))
        /\ answer.lead = "Most likely winner (heuristic): " =>
              answer.tail = Coalesce(NamedObject.profile, Str(WhyWinner))
        /\ answer.lead \in {"Highest base value: ", "Lowest base value: ",
                             "Most likely winner (heuristic): "} =>
              answer.tail # EmptyString

\* C8: a session is ready only on a reachable source whose objects are all
\* well formed, and then every row has a numeric low, base and high.
C8_FailFast ==
    phase = "ready" =>
        /\ WellFormedSource
        /\ \A i \in 1..Len(rows) :
              IsNumber(rows[i].low) /\ IsNumber(rows[i].base) /\ IsNumber(rows[i].high)

\* the selection is null or one row
SelectionOk ==
    /\ selected = Null \/ \E i \in 1..Len(rows) : selected = Ref(rows[i])
    /\ selectedIndex = Null => selected = Null
    /\ selected # Null => detail = renderDetail(Deref(selected))

\* C9: the selection is null until the first pick and afterwards the record
\* given to the latest pick; only a pick changes it, and picking the selected
\* record again changes nothing.
C9_Selection ==
    /\ []SelectionOk
    /\ [][/\ selected' # selected => \E idx \in 1..MaxRows : ChartClickRow(idx)
          /\ \A idx \in 1..MaxRows :
                (ChartClickRow(idx) /\ selected = Ref(rows[idx])) =>
                    (selected' = selected /\ detail' = detail)]_vars

\* a record is selected and a later Q&A click has reordered the rows
C9_Witness ==
    /\ selected # Null
    /\ rows # GivenRows
    /\ answer # PageDefault

\* C10: the selected record is the one whose name labels the highlighted row.
C10_SelectionMatchesLabel ==
    selected # Null => Deref(selected).investor = labels[Val(selectedIndex)]
====
